---- MODULE Spec2Model ----
(***************************************************************************)
(* Model of the scope-aware variable renamer                               *)
(* (src/src/modifications/renaming/variableRenamer.ts).                    *)
(*                                                                         *)
(* A program is a syntax tree given as a sequence of nodes in pre-order;   *)
(* node 0 is the Script root.  Identifier names are sequences of           *)
(* one-character strings, so that startsWith and the concatenations of     *)
(* generateNames are computed as the code computes them.  Scope and        *)
(* Variable objects live in two heaps (scopes, vars) and are referred to   *)
(* by their index: the index is the object's identity.                     *)
(***************************************************************************)
EXTENDS Naturals, Sequences, FiniteSets, TLC

----------------------------------------------------------------------------
(* Bounds of the model.                                                    *)

\* largest number of nodes below the Script root
MaxNodes == 3
\* number of letters of ALPHABET the name generator iterates over
AlphabetLen == 2

----------------------------------------------------------------------------
(* Names.                                                                  *)

ALPHABET ==
  << "a", "b", "c", "d", "e", "f", "g", "h", "i", "j", "k", "l", "m",
     "n", "o", "p", "q", "r", "s", "t", "u", "v", "w", "x", "y", "z" >>

ReservedWords ==
  { <<"i","f">>, <<"d","o">>, <<"i","n">>, <<"v","a","r">>,
    <<"l","e","t">>, <<"t","r","y">>, <<"f","o","r">> }

\* the name of the implicit binding of non-arrow functions
ArgumentsName == <<"a","r","g","u","m","e","n","t","s">>

\* an absent name (anonymous function expression, catch without binding)
NoName == << >>
\* a binding that is a destructuring pattern and not a BindingIdentifier
Pattern == <<"[","]">>

\* the identifier names programs are built from
NameE == <<"_","0","x","1">>
NameA == <<"a">>
Names == {NameE, NameA}

\* name.startsWith('_0x')
shouldRename(name) ==
  /\ Len(name) >= Len(<<"_","0","x">>)
  /\ SubSeq(name, 1, Len(<<"_","0","x">>)) = <<"_","0","x">>

----------------------------------------------------------------------------
(* Syntax trees.                                                           *)

FunctionTypes == {"FunctionDeclaration", "FunctionExpression", "ArrowExpression"}
BlockTypes == {"CatchClause", "ForStatement", "BlockStatement"}
ScopeNodeTypes == FunctionTypes \cup BlockTypes

Node(type, name, items, kind) ==
  [type |-> type, name |-> name, items |-> items, kind |-> kind]

ContainerNodes ==
  { Node("FunctionDeclaration", NameE, << >>, "-"),
    Node("FunctionExpression", NameE, <<NameE>>, "-"),
    Node("FunctionExpression", NoName, << >>, "-"),
    Node("ArrowExpression", NoName, <<NameE>>, "-"),
    Node("CatchClause", NameE, << >>, "-"),
    Node("CatchClause", NoName, << >>, "-"),
    Node("ForStatement", NoName, << >>, "-"),
    Node("BlockStatement", NoName, << >>, "-") }

LeafNodes ==
       {Node("VariableDeclaration", NoName, <<n>>, k) : n \in Names, k \in {"var", "let"}}
  \cup {Node("VariableDeclaration", NoName, <<Pattern, NameA>>, "var")}
  \cup {Node("IdentifierExpression", n, << >>, "-") : n \in Names}

NodeShapes == ContainerNodes \cup LeafNodes

RECURSIVE IsAncestorOrSelf(_, _, _)
\* a is i or an ancestor of i under the parent vector par (0 is the root)
IsAncestorOrSelf(par, a, i) ==
  IF a = i THEN TRUE
  ELSE IF i = 0 THEN FALSE
  ELSE IsAncestorOrSelf(par, a, par[i])

WithParent(shape, p) ==
  [type |-> shape.type, name |-> shape.name, items |-> shape.items,
   kind |-> shape.kind, parent |-> p]

\* the nodes of tree t that can take one more child at the end of the
\* pre-order: the root, and the scope-creating nodes among the last node and
\* its ancestors
OpenNodes(t) ==
  { q \in 0..Len(t) :
      /\ q = 0 \/ t[q].type \in ScopeNodeTypes
      /\ IsAncestorOrSelf([k \in 1..Len(t) |-> t[k].parent], q, Len(t)) }

RECURSIVE ProgramsOfSize(_)
\* the trees with n nodes below the root, numbered in pre-order
ProgramsOfSize(n) ==
  IF n = 0 THEN {<< >>}
  ELSE UNION { { Append(t, WithParent(sh, q)) : sh \in NodeShapes, q \in OpenNodes(t) } :
               t \in ProgramsOfSize(n - 1) }

Programs == UNION { ProgramsOfSize(n) : n \in 0..MaxNodes }

NodeType(t, i) == IF i = 0 THEN "Script" ELSE t[i].type

\* a binding or use site: node i, slot j (0: name, binding or use; j >= 1:
\* the j-th parameter or declarator)
Site(i, j) == <<i, j>>

SiteName(t, s) == IF s[2] = 0 THEN t[s[1]].name ELSE t[s[1]].items[s[2]]

SetSiteName(t, s, n) ==
  IF s[2] = 0 THEN [t EXCEPT ![s[1]].name = n]
  ELSE [t EXCEPT ![s[1]].items[s[2]] = n]

Children(t, i) == SelectSeq([k \in 1..Len(t) |-> k], LAMBDA k : t[k].parent = i)

RECURSIVE Walk(_, _)
RECURSIVE WalkAll(_, _)
\* the enter/leave events of a depth-first traversal of the subtree of node i
Walk(t, i) == <<[ev |-> "enter", node |-> i]>> \o WalkAll(t, Children(t, i))
              \o <<[ev |-> "leave", node |-> i]>>
WalkAll(t, cs) == IF cs = << >> THEN << >> ELSE Walk(t, Head(cs)) \o WalkAll(t, Tail(cs))

traverse(t) == Walk(t, 0)

----------------------------------------------------------------------------
(* Scope and Variable objects (scope.ts, variable.ts).                     *)

blockScopedTypes == {"let", "const"}

\* new Variable(name, type)
Variable(name, type) ==
  [name |-> name, type |-> type, declarations |-> << >>, references |-> << >>]

isBlockScoped(v) == v.type \in blockScopedTypes

\* the working state of a walk: the two heaps, the used names, the scope
\* cursor and the error raised, if any
Context(ss, vs, used, cur, e) ==
  [scopes |-> ss, vars |-> vs, used |-> used, scope |-> cur, err |-> e]

\* allocation of a Variable object; its identity is Len(result.vars)
NewVariable(c, name, type) == [c EXCEPT !.vars = Append(@, Variable(name, type))]

\* variable.declarations.push(site)
PushDeclaration(c, v, site) == [c EXCEPT !.vars[v].declarations = Append(@, site)]

\* variable.references.push(site)
PushReference(c, v, site) == [c EXCEPT !.vars[v].references = Append(@, site)]

\* new Scope(node, type, parent): the new scope becomes the last child of
\* its parent; its identity is Len(result)
NewScope(ss, node, type, parent) ==
  LET s == [node |-> node, type |-> type, parent |-> parent,
            children |-> << >>, variables |-> << >>]
      id == Len(ss) + 1
  IN  IF parent = 0 THEN Append(ss, s)
      ELSE Append([ss EXCEPT ![parent].children = Append(@, id)], s)

\* scope.variables.has(name)
Has(tab, name) == \E k \in 1..Len(tab) : tab[k].key = name

\* scope.variables.get(name), 0 when absent
Get(tab, name) ==
  IF Has(tab, name) THEN tab[CHOOSE k \in 1..Len(tab) : tab[k].key = name].var ELSE 0

\* scope.addVariable(variable), called on scope s with the Variable object v
addVariable(c, s, v) ==
  LET name == c.vars[v].name
      tab == c.scopes[s].variables
      e == Get(tab, name)
  IN  IF Has(tab, name)
      THEN IF isBlockScoped(c.vars[e]) \/ isBlockScoped(c.vars[v])
           THEN [c EXCEPT !.err = "DuplicateDeclaration"]
           ELSE [c EXCEPT !.vars[e].declarations = @ \o c.vars[v].declarations]
      ELSE [c EXCEPT !.scopes[s].variables = Append(@, [key |-> name, var |-> v])]

RECURSIVE getDeclarationScope(_, _, _)
\* scope.getDeclarationScope(kind)
getDeclarationScope(ss, s, kind) ==
  IF kind = "var" /\ ss[s].type = "Other" /\ ss[s].parent # 0
  THEN getDeclarationScope(ss, ss[s].parent, kind)
  ELSE s

RECURSIVE lookupVariable(_, _, _)
\* scope.lookupVariable(name), 0 when no scope of the chain holds the name
lookupVariable(ss, s, name) ==
  IF Has(ss[s].variables, name) THEN Get(ss[s].variables, name)
  ELSE IF ss[s].parent = 0 THEN 0
  ELSE lookupVariable(ss, ss[s].parent, name)

----------------------------------------------------------------------------
(* collectDeclarations: the enter handler.                                 *)

\* this.addName(name)
addName(c, name) ==
  IF ~shouldRename(name) THEN [c EXCEPT !.used = @ \cup {name}] ELSE c

\* new Variable(name, type); declarations.push(site); scope.addVariable;
\* self.addName(name)
Declare(c, name, type, site) ==
  LET c1 == PushDeclaration(NewVariable(c, name, type), Len(c.vars) + 1, site)
      c2 == addVariable(c1, c1.scope, Len(c1.vars))
  IN  IF c2.err # "none" THEN c2 ELSE addName(c2, name)

RECURSIVE DeclareParams(_, _, _, _)
\* for (const param of node.params.items), from the j-th parameter on
DeclareParams(c, t, i, j) ==
  IF j > Len(t[i].items) \/ c.err # "none" THEN c
  ELSE IF t[i].items[j] # Pattern
       THEN DeclareParams(Declare(c, t[i].items[j], "var", Site(i, j)), t, i, j + 1)
       ELSE DeclareParams(c, t, i, j + 1)

\* the case without the test node.type != 'ArrowExpression'
EnterFunctionArgumentsAlways(c, t, i) ==
  LET ss == NewScope(c.scopes, i, "Function", c.scope)
      c1 == [c EXCEPT !.scopes = ss, !.scope = Len(ss)]
      c2 == IF t[i].type = "FunctionExpression" /\ t[i].name # NoName
            THEN Declare(c1, t[i].name, "var", Site(i, 0))
            ELSE c1
      c3 == DeclareParams(c2, t, i, 1)
      c4 == NewVariable(c3, ArgumentsName, "var")
  IN  IF c3.err # "none" THEN c3 ELSE addVariable(c4, c4.scope, Len(c4.vars))

\* case 'FunctionExpression': case 'ArrowExpression'
EnterFunction(c, t, i) ==
  LET ss == NewScope(c.scopes, i, "Function", c.scope)
      c1 == [c EXCEPT !.scopes = ss, !.scope = Len(ss)]
      c2 == IF t[i].type = "FunctionExpression" /\ t[i].name # NoName
            THEN Declare(c1, t[i].name, "var", Site(i, 0))
            ELSE c1
      c3 == DeclareParams(c2, t, i, 1)
      c4 == NewVariable(c3, ArgumentsName, "var")
  IN  IF c3.err # "none" THEN c3
      ELSE IF t[i].type # "ArrowExpression"
           THEN addVariable(c4, c4.scope, Len(c4.vars))
           ELSE c3

\* the case with a break after the declaration of the name, so that it does
\* not fall through
EnterFunctionDeclarationBreak(c, t, i) == Declare(c, t[i].name, "var", Site(i, 0))

\* case 'FunctionDeclaration', which falls through into the next case
EnterFunctionDeclaration(c, t, i) ==
  LET c1 == Declare(c, t[i].name, "var", Site(i, 0))
  IN  IF c1.err # "none" THEN c1 ELSE EnterFunction(c1, t, i)

\* case 'ForStatement': case 'BlockStatement'
EnterBlock(c, t, i) ==
  LET ss == NewScope(c.scopes, i, "Other", c.scope)
  IN  [c EXCEPT !.scopes = ss, !.scope = Len(ss)]

\* case 'CatchClause', which falls through into the next case
EnterCatchClause(c, t, i) ==
  LET c1 == IF t[i].name # NoName /\ t[i].name # Pattern
            THEN Declare(c, t[i].name, "let", Site(i, 0))
            ELSE c
  IN  IF c1.err # "none" THEN c1 ELSE EnterBlock(c1, t, i)

\* the body of the loop with the test of the conflict negated
DeclareDeclaratorNegated(c, t, i, j) ==
  LET name == t[i].items[j]
      declarationScope == getDeclarationScope(c.scopes, c.scope, t[i].kind)
      tab == c.scopes[declarationScope].variables
      old == Get(tab, name)
      c1 == NewVariable(c, name, t[i].kind)
      c2 == addVariable(c1, c1.scope, Len(c1.vars))
  IN  IF Has(tab, name)
      THEN IF ~(isBlockScoped(c.vars[old]) \/ t[i].kind \in blockScopedTypes)
           THEN [c EXCEPT !.err = "DuplicateDeclaration"]
           ELSE PushDeclaration(c, old, Site(i, j))
      ELSE IF c2.err # "none" THEN c2
           ELSE PushDeclaration(addName(c2, name), Len(c1.vars), Site(i, j))

\* the body of the loop over the declarators, for the j-th declarator
DeclareDeclarator(c, t, i, j) ==
  LET name == t[i].items[j]
      declarationScope == getDeclarationScope(c.scopes, c.scope, t[i].kind)
      tab == c.scopes[declarationScope].variables
      old == Get(tab, name)
      c1 == NewVariable(c, name, t[i].kind)
      c2 == addVariable(c1, c1.scope, Len(c1.vars))
  IN  IF Has(tab, name)
      THEN IF isBlockScoped(c.vars[old]) \/ t[i].kind \in blockScopedTypes
           THEN [c EXCEPT !.err = "DuplicateDeclaration"]
           ELSE PushDeclaration(c, old, Site(i, j))
      ELSE IF c2.err # "none" THEN c2
           ELSE PushDeclaration(addName(c2, name), Len(c1.vars), Site(i, j))

RECURSIVE DeclareDeclarators(_, _, _, _)
\* for (const declarator of node.declarators), from the j-th declarator on;
\* a declarator that is no BindingIdentifier ends the loop
DeclareDeclarators(c, t, i, j) ==
  IF j > Len(t[i].items) \/ c.err # "none" THEN c
  ELSE IF t[i].items[j] = Pattern THEN c
  ELSE DeclareDeclarators(DeclareDeclarator(c, t, i, j), t, i, j + 1)

\* case 'VariableDeclaration'
EnterVariableDeclaration(c, t, i) == DeclareDeclarators(c, t, i, 1)

\* enter(node) of collectDeclarations
EnterDeclarations(c, t, i) ==
  CASE NodeType(t, i) = "FunctionDeclaration" -> EnterFunctionDeclaration(c, t, i)
    [] NodeType(t, i) \in {"FunctionExpression", "ArrowExpression"} -> EnterFunction(c, t, i)
    [] NodeType(t, i) = "CatchClause" -> EnterCatchClause(c, t, i)
    [] NodeType(t, i) \in {"ForStatement", "BlockStatement"} -> EnterBlock(c, t, i)
    [] NodeType(t, i) = "VariableDeclaration" -> EnterVariableDeclaration(c, t, i)
    [] OTHER -> c

\* the handler without the test node == scope.node
LeaveAnyNode(c, t, i) ==
  IF c.scopes[c.scope].parent # 0
  THEN [c EXCEPT !.scope = c.scopes[c.scope].parent]
  ELSE c

\* leave(node) of both walks
Leave(c, t, i) ==
  IF i = c.scopes[c.scope].node /\ c.scopes[c.scope].parent # 0
  THEN [c EXCEPT !.scope = c.scopes[c.scope].parent]
  ELSE c

----------------------------------------------------------------------------
(* collectReferences: the enter handler.                                   *)

\* scope.children.find(s => s.node == node), 0 when there is none
FindChild(ss, s, i) ==
  LET hits == SelectSeq(ss[s].children, LAMBDA k : ss[k].node = i)
  IN  IF hits = << >> THEN 0 ELSE Head(hits)

\* the six scope-creating cases
EnterScope(c, t, i) ==
  LET newScope == FindChild(c.scopes, c.scope, i)
  IN  IF newScope = 0 THEN [c EXCEPT !.err = "ScopeAssociationFailure"]
      ELSE [c EXCEPT !.scope = newScope]

\* case 'IdentifierExpression'
EnterIdentifierExpression(c, t, i) ==
  LET found == lookupVariable(c.scopes, c.scope, t[i].name)
      c1 == addName(NewVariable(c, t[i].name, "var"), t[i].name)
  IN  IF found # 0 THEN PushReference(c, found, Site(i, 0))
      ELSE PushReference(c1, Len(c1.vars), Site(i, 0))

\* enter(node) of collectReferences
EnterReferences(c, t, i) ==
  CASE NodeType(t, i) \in ScopeNodeTypes -> EnterScope(c, t, i)
    [] NodeType(t, i) = "IdentifierExpression" -> EnterIdentifierExpression(c, t, i)
    [] OTHER -> c

----------------------------------------------------------------------------
(* generateNames, getVariableName, renameVariables.                        *)

\* this.ALPHABET.split(''), cut to the letters the model iterates over
chars == SubSeq(ALPHABET, 1, AlphabetLen)

\* the candidates of each length, in the order of the nested loops
Names1 == [k \in 1..Len(chars) |-> <<chars[k]>>]
Names2 ==
  [k \in 1..(Len(chars) * Len(chars)) |->
     <<chars[((k - 1) \div Len(chars)) + 1], chars[((k - 1) % Len(chars)) + 1]>>]
Names3 ==
  [k \in 1..(Len(chars) * Len(chars) * Len(chars)) |->
     << chars[((k - 1) \div (Len(chars) * Len(chars))) + 1],
        chars[(((k - 1) \div Len(chars)) % Len(chars)) + 1],
        chars[((k - 1) % Len(chars)) + 1] >>]

\* the value generateNames assigns to this.variableNames
generateNames(used) ==
  SelectSeq(Names1 \o Names2 \o Names3, LAMBDA name : name \notin used)

RECURSIVE PatchSites(_, _, _)
\* the name of every site of the list becomes newName
PatchSites(t, sites, newName) ==
  IF sites = << >> THEN t
  ELSE PatchSites(SetSiteName(t, Head(sites), newName), Tail(sites), newName)

\* variable.rename(newName) on the Variable object v; r holds the heap of
\* Variables and the tree
rename(r, v, newName) ==
  [r EXCEPT !.vars[v].name = newName,
            !.ast = PatchSites(PatchSites(@, r.vars[v].declarations, newName),
                               r.vars[v].references, newName)]

\* the body of the loop with a getVariableName that has no test of the
\* length: shift() on the empty queue returns no name and the loop goes on
RenameEntryUnchecked(r, entry) ==
  IF ~shouldRename(entry.key) THEN r
  ELSE IF Len(r.names) = 0 THEN rename(r, entry.var, NoName)
  ELSE rename([r EXCEPT !.names = Tail(@), !.issued = Append(@, Head(r.names))],
              entry.var, Head(r.names))

\* the body of the loop with a getVariableName that raises the error of a
\* redeclaration
RenameEntryDuplicateError(r, entry) ==
  IF ~shouldRename(entry.key) THEN r
  ELSE IF Len(r.names) = 0 THEN [r EXCEPT !.err = "DuplicateDeclaration"]
  ELSE rename([r EXCEPT !.names = Tail(@), !.issued = Append(@, Head(r.names))],
              entry.var, Head(r.names))

\* the body of the loop of renameVariables for one entry of scope.variables;
\* getVariableName raises when the queue is empty
RenameEntry(r, entry) ==
  IF ~shouldRename(entry.key) THEN r
  ELSE IF Len(r.names) = 0 THEN [r EXCEPT !.err = "NameExhaustion"]
  ELSE rename([r EXCEPT !.names = Tail(@), !.issued = Append(@, Head(r.names))],
              entry.var, Head(r.names))

RECURSIVE RenameEntries(_, _)
\* for (const [name, variable] of scope.variables)
RenameEntries(r, tab) ==
  IF tab = << >> \/ r.err # "none" THEN r
  ELSE RenameEntries(RenameEntry(r, Head(tab)), Tail(tab))

----------------------------------------------------------------------------
(* The pass as a state machine.                                            *)

VARIABLES
  ast,                \* the tree, mutated in place by the renaming
  orig,               \* the tree as it was given to the constructor
  phase,              \* the step of execute that is running
  pos,                \* position of the running walk in the event sequence
  scope,              \* the scope cursor of the running walk
  scopes,             \* heap of Scope objects; scopes[1] is globalScope
  vars,               \* heap of Variable objects
  variableNames,      \* this.variableNames
  usedVariableNames,  \* this.usedVariableNames
  stack,              \* scopes whose renameVariables call is still to run
  err,                \* the error execute has raised, "none" if none
  issued,             \* the names getVariableName has returned, in order
  visited,            \* the scopes renameVariables has been called on, in order
  last,               \* the handler or step that ran last, and the cursor before it
  opened,             \* the nodes entered and not yet left, each with the cursor before its enter
  pass                \* 1 for the first run on the tree, 2 for a rerun on its result

vars_all == <<ast, orig, phase, pos, scope, scopes, vars, variableNames,
              usedVariableNames, stack, err, issued, visited, last, opened, pass>>

NoStep == [op |-> "none", node |-> 0, scope |-> 0, nscopes |-> 0, nvars |-> 0]

Step(op, node) ==
  [op |-> op, node |-> node, scope |-> scope, nscopes |-> Len(scopes), nvars |-> Len(vars)]

\* the state the constructor leaves, with the cursor of collectDeclarations
\* on globalScope
Constructed(tree) ==
  /\ ast = tree
  /\ phase = "declare"
  /\ pos = 1
  /\ scope = 1
  /\ scopes = NewScope(<< >>, 0, "Global", 0)
  /\ vars = << >>
  /\ variableNames = << >>
  /\ usedVariableNames = ReservedWords
  /\ stack = << >>
  /\ err = "none"
  /\ issued = << >>
  /\ visited = << >>
  /\ last = NoStep
  /\ opened = << >>

Init ==
  /\ orig \in Programs
  /\ pass = 1
  /\ Constructed(orig)

Events == traverse(ast)

Current == Context(scopes, vars, usedVariableNames, scope, err)

\* the effect of a handler of a walk that returns the context c
Handled(c) ==
  /\ scopes' = c.scopes
  /\ vars' = c.vars
  /\ usedVariableNames' = c.used
  /\ scope' = c.scope
  /\ err' = c.err
  /\ IF c.err # "none"
     THEN phase' = "failed" /\ pos' = pos
     ELSE phase' = phase /\ pos' = pos + 1
  /\ UNCHANGED <<ast, orig, variableNames, stack, issued, visited, pass>>

\* collectDeclarations: traverse calls enter(node)
DeclarationsEnter ==
  /\ phase = "declare"
  /\ pos <= Len(Events)
  /\ Events[pos].ev = "enter"
  /\ last' = Step("declarations.enter", Events[pos].node)
  /\ opened' = Append(opened, [node |-> Events[pos].node, scope |-> scope])
  /\ Handled(EnterDeclarations(Current, ast, Events[pos].node))

\* collectDeclarations: traverse calls leave(node)
DeclarationsLeave ==
  /\ phase = "declare"
  /\ pos <= Len(Events)
  /\ Events[pos].ev = "leave"
  /\ last' = Step("declarations.leave", Events[pos].node)
  /\ opened' = SubSeq(opened, 1, Len(opened) - 1)
  /\ Handled(Leave(Current, ast, Events[pos].node))

\* execute: collectDeclarations has returned, collectReferences starts with
\* its cursor on globalScope
collectReferences ==
  /\ phase = "declare"
  /\ pos > Len(Events)
  /\ phase' = "resolve"
  /\ pos' = 1
  /\ scope' = 1
  /\ last' = Step("collectReferences", 0)
  /\ UNCHANGED <<ast, orig, scopes, vars, variableNames, usedVariableNames,
                 stack, err, issued, visited, opened, pass>>

\* collectReferences: traverse calls enter(node)
ReferencesEnter ==
  /\ phase = "resolve"
  /\ pos <= Len(Events)
  /\ Events[pos].ev = "enter"
  /\ last' = Step("references.enter", Events[pos].node)
  /\ opened' = Append(opened, [node |-> Events[pos].node, scope |-> scope])
  /\ Handled(EnterReferences(Current, ast, Events[pos].node))

\* collectReferences: traverse calls leave(node)
ReferencesLeave ==
  /\ phase = "resolve"
  /\ pos <= Len(Events)
  /\ Events[pos].ev = "leave"
  /\ last' = Step("references.leave", Events[pos].node)
  /\ opened' = SubSeq(opened, 1, Len(opened) - 1)
  /\ Handled(Leave(Current, ast, Events[pos].node))

\* execute: collectReferences has returned; generateNames() runs and
\* renameVariables(this.globalScope) is called
GenerateNames ==
  /\ phase = "resolve"
  /\ pos > Len(Events)
  /\ variableNames' = generateNames(usedVariableNames)
  /\ phase' = "rename"
  /\ stack' = <<1>>
  /\ last' = Step("generateNames", 0)
  /\ UNCHANGED <<ast, orig, pos, scope, scopes, vars, usedVariableNames,
                 err, issued, visited, opened, pass>>

\* one call renameVariables(scope): the loop over the variables of the
\* scope, then the calls on its children, which run depth-first in order
RenameVariables ==
  /\ phase = "rename"
  /\ stack # << >>
  /\ LET s == Head(stack)
         r == RenameEntries([vars |-> vars, ast |-> ast, names |-> variableNames,
                             issued |-> issued, err |-> "none"],
                            scopes[s].variables)
     IN  /\ vars' = r.vars
         /\ ast' = r.ast
         /\ variableNames' = r.names
         /\ issued' = r.issued
         /\ err' = r.err
         /\ visited' = Append(visited, s)
         /\ last' = Step("renameVariables", scopes[s].node)
         /\ IF r.err # "none"
            THEN phase' = "failed" /\ stack' = stack
            ELSE /\ stack' = scopes[s].children \o Tail(stack)
                 /\ phase' = IF stack' = << >> THEN "done" ELSE "rename"
  /\ UNCHANGED <<orig, pos, scope, scopes, usedVariableNames, opened, pass>>

\* a second VariableRenamer is constructed on the tree the first one has
\* produced, and executed
Rerun ==
  /\ phase = "done"
  /\ pass = 1
  /\ pass' = 2
  /\ orig' = orig
  /\ ast' = ast
  /\ phase' = "declare"
  /\ pos' = 1
  /\ scope' = 1
  /\ scopes' = NewScope(<< >>, 0, "Global", 0)
  /\ vars' = << >>
  /\ variableNames' = << >>
  /\ usedVariableNames' = ReservedWords
  /\ stack' = << >>
  /\ err' = "none"
  /\ issued' = << >>
  /\ visited' = << >>
  /\ last' = NoStep
  /\ opened' = << >>

Next ==
  \/ DeclarationsEnter
  \/ DeclarationsLeave
  \/ collectReferences
  \/ ReferencesEnter
  \/ ReferencesLeave
  \/ GenerateNames
  \/ RenameVariables

Spec == Init /\ [][Next]_vars_all

NextTwice == Next \/ Rerun

\* two more names with the prefix _0x
NameF == <<"_","0","x","2">>
NameG == <<"_","0","x","3">>

\* every name generateNames can produce
Candidates == Names1 \o Names2 \o Names3

\* the candidates a program of ExhaustPrograms may leave unused
SpareNames == { <<chars[1]>>, <<chars[Len(chars)], chars[Len(chars)]>>,
                <<chars[1], chars[Len(chars)], chars[1]>> }

\* a var statement that declares every candidate name but those of free
UsedStatement(free) ==
  WithParent(Node("VariableDeclaration", NoName,
                  SelectSeq(Candidates, LAMBDA n : n \notin free), "var"), 0)

\* what follows the statement: one to three declarations of names with the
\* prefix, in one scope or spread over a function and its body
EligibleTails ==
  { << WithParent(Node("VariableDeclaration", NoName, <<NameE>>, "var"), 0) >>,
    << WithParent(Node("VariableDeclaration", NoName, <<NameE, NameF>>, "var"), 0) >>,
    << WithParent(Node("VariableDeclaration", NoName, <<NameE, NameF, NameG>>, "let"), 0) >>,
    << WithParent(Node("FunctionExpression", NameE, <<NameF>>, "-"), 0),
       WithParent(Node("VariableDeclaration", NoName, <<NameG>>, "let"), 2) >>,
    << WithParent(Node("VariableDeclaration", NoName, <<NameE>>, "let"), 0),
       WithParent(Node("BlockStatement", NoName, << >>, "-"), 0),
       WithParent(Node("VariableDeclaration", NoName, <<NameE, NameF>>, "let"), 3) >> }

\* programs that use up all candidate names but zero to three of them
ExhaustPrograms ==
  { <<UsedStatement(free)>> \o tail : free \in SUBSET SpareNames, tail \in EligibleTails }

InitExhaust ==
  /\ orig \in ExhaustPrograms
  /\ pass = 1
  /\ Constructed(orig)

SpecExhaust == InitExhaust /\ [][Next]_vars_all

\* the programs of both families
InitAny ==
  /\ orig \in Programs \cup ExhaustPrograms
  /\ pass = 1
  /\ Constructed(orig)

SpecAny == InitAny /\ [][Next]_vars_all

SpecTwice == Init /\ [][NextTwice]_vars_all

----------------------------------------------------------------------------
(* The scoping of the source language, read from the tree alone.  The      *)
(* properties below compare what the pass has recorded with it.            *)

Uses(t) == {i \in 1..Len(t) : t[i].type = "IdentifierExpression"}

\* the sites that bind a plain identifier
BindingSites(t) ==
       {Site(i, 0) : i \in {k \in 1..Len(t) :
                               /\ t[k].type \in {"FunctionDeclaration", "FunctionExpression",
                                                 "CatchClause"}
                               /\ t[k].name # NoName /\ t[k].name # Pattern}}
  \cup UNION { {Site(i, j) : j \in {k \in 1..Len(t[i].items) : t[i].items[k] # Pattern}} :
               i \in {k \in 1..Len(t) : t[k].type \in FunctionTypes \cup {"VariableDeclaration"}} }

\* the declaration kind of a binding site
SiteKind(t, b) ==
  IF t[b[1]].type = "VariableDeclaration" THEN t[b[1]].kind
  ELSE IF t[b[1]].type = "CatchClause" THEN "let"
  ELSE "var"

RECURSIVE FunctionNodeOf(_, _)
\* the nearest function (or the Script) that is node i or encloses it
FunctionNodeOf(t, i) ==
  IF i = 0 \/ t[i].type \in FunctionTypes THEN i ELSE FunctionNodeOf(t, t[i].parent)

\* the node whose scope a binding site belongs to
SiteScopeNode(t, b) ==
  LET i == b[1]
  IN  CASE t[i].type = "FunctionDeclaration" /\ b[2] = 0 -> t[i].parent
        [] t[i].type = "VariableDeclaration" /\ t[i].kind = "var" -> FunctionNodeOf(t, t[i].parent)
        [] t[i].type = "VariableDeclaration" -> t[i].parent
        [] OTHER -> i

\* the binding sites of name n in the scope of node s
SitesIn(t, s, n) == {b \in BindingSites(t) : SiteScopeNode(t, b) = s /\ SiteName(t, b) = n}

RECURSIVE ResolveFrom(_, _, _)
\* the binding a use of n in the scope of node s denotes: the sites of the
\* nearest enclosing scope that declares n, or the global of that name
ResolveFrom(t, s, n) ==
  IF SitesIn(t, s, n) # {} THEN [declared |-> TRUE, node |-> s, sites |-> SitesIn(t, s, n), name |-> n]
  ELSE IF s = 0 THEN [declared |-> FALSE, node |-> 0, sites |-> {}, name |-> n]
  ELSE ResolveFrom(t, t[s].parent, n)

Resolve(t, i) == ResolveFrom(t, t[i].parent, t[i].name)

\* b1, found in the renamed tree, is the binding b0 of the original tree
SameBinding(b0, b1) ==
  IF b0.declared
  THEN b1.declared /\ b1.node = b0.node /\ b1.sites \subseteq b0.sites
  ELSE ~b1.declared /\ b1.name = b0.name

\* a block-scoped binding shares its name with another binding of its scope
BlockScopedRedeclaration(t) ==
  \E b1 \in BindingSites(t) : \E b2 \in BindingSites(t) :
    /\ b1 # b2
    /\ SiteName(t, b1) = SiteName(t, b2)
    /\ SiteScopeNode(t, b1) = SiteScopeNode(t, b2)
    /\ SiteKind(t, b1) \in blockScopedTypes

\* the Scope object the first walk has created for node i, 0 if none
ScopeOf(i) ==
  IF \E k \in 1..Len(scopes) : scopes[k].node = i
  THEN CHOOSE k \in 1..Len(scopes) : scopes[k].node = i
  ELSE 0

ToSet(seq) == {seq[k] : k \in 1..Len(seq)}

\* the Variables held in the table of scope s that record the site b
Holders(s, b) ==
  {e.var : e \in {x \in ToSet(scopes[s].variables) : b \in ToSet(vars[x.var].declarations)}}

DeclarationsCollected == phase \in {"resolve", "rename", "done"}

----------------------------------------------------------------------------
(* C1.                                                                     *)

\* C1: for a program with no block-scoped redeclaration, after execute every
\* identifier use resolves, by its name in the renamed tree, to the binding
\* it resolved to by its name in the original tree.
C1_ResolutionPreserved ==
  (phase = "done" /\ pass = 1 /\ ~BlockScopedRedeclaration(orig))
    => \A i \in Uses(orig) : SameBinding(Resolve(orig, i), Resolve(ast, i))

----------------------------------------------------------------------------
(* C2.                                                                     *)

\* C2: DuplicateDeclaration is raised only for a program in which a
\* block-scoped binding shares its name with another binding of the same
\* scope.
C2_DuplicateOnlyOnRedeclaration ==
  (pass = 1 /\ err = "DuplicateDeclaration") => BlockScopedRedeclaration(orig)

----------------------------------------------------------------------------
(* C3.                                                                     *)

\* the var declarators that sit in a block, for or catch scope
NestedVarSites(t) ==
  {b \in BindingSites(t) : /\ t[b[1]].type = "VariableDeclaration"
                           /\ t[b[1]].kind = "var"
                           /\ NodeType(t, t[b[1]].parent) \in BlockTypes}

\* C3: after collectDeclarations every identifier bound by a var statement
\* inside block, for or catch scopes is held by the scope of the nearest
\* enclosing function (or the global scope) and by no Other-kind scope.
C3_VarHoisted ==
  (pass = 1 /\ DeclarationsCollected) =>
    \A b \in NestedVarSites(orig) :
      /\ Holders(ScopeOf(SiteScopeNode(orig, b)), b) # {}
      /\ \A k \in 1..Len(scopes) : scopes[k].type = "Other" => Holders(k, b) = {}

----------------------------------------------------------------------------
(* C4.                                                                     *)

\* the uses the second walk has found no declaration for
UndeclaredUses ==
  {i \in Uses(orig) : \E v \in 1..Len(vars) :
      /\ Site(i, 0) \in ToSet(vars[v].references)
      /\ vars[v].declarations = << >>
      /\ vars[v].name # ArgumentsName}

\* C4: after collectReferences the global scope holds one Variable for every
\* undeclared name, every undeclared use of the name is in its reference
\* list, and no second Variable has been created for the name.
C4_OneImplicitGlobal ==
  (pass = 1 /\ phase = "resolve" /\ pos > Len(Events)) =>
    \A i \in UndeclaredUses :
      /\ Has(scopes[1].variables, orig[i].name)
      /\ Site(i, 0) \in ToSet(vars[Get(scopes[1].variables, orig[i].name)].references)
      /\ Cardinality({v \in 1..Len(vars) : /\ vars[v].name = orig[i].name
                                           /\ vars[v].declarations = << >>}) = 1

----------------------------------------------------------------------------
(* C5.                                                                     *)

\* the identifier names present in a tree
NamesOf(t) ==
  {SiteName(t, b) : b \in BindingSites(t)} \cup {t[i].name : i \in Uses(t)}

\* C5: the names getVariableName has issued are pairwise distinct, none is a
\* reserved word, none is an identifier name of the original program, and
\* their lengths never decrease.
C5_IssuedNamesFresh ==
  pass = 1 =>
    /\ \A k \in 1..Len(issued) : \A m \in 1..Len(issued) : k # m => issued[k] # issued[m]
    /\ \A k \in 1..Len(issued) : issued[k] \notin ReservedWords
    /\ \A k \in 1..Len(issued) : issued[k] \notin NamesOf(orig)
    /\ \A k \in 1..Len(issued) : \A m \in 1..Len(issued) :
         k < m => Len(issued[k]) <= Len(issued[m])

----------------------------------------------------------------------------
(* C6.                                                                     *)

\* declarator j of node i is a plain identifier the loop of the handler gets to
Reached(t, i, j) ==
  /\ j \in 1..Len(t[i].items)
  /\ \A k \in 1..j : t[i].items[k] # Pattern

\* an earlier statement of the same kind, directly in the same scope as
\* statement i, whose declarator j0 binds the name of declarator j of i
DeclaredBefore(t, i, j, i0, j0) ==
  /\ i0 < i
  /\ t[i0].type = "VariableDeclaration"
  /\ t[i0].kind = t[i].kind
  /\ t[i0].parent = t[i].parent
  /\ Reached(t, i0, j0)
  /\ t[i0].items[j0] = t[i].items[j]

\* the enter handler of collectDeclarations has just run on statement i
JustDeclared(i) ==
  /\ pass = 1
  /\ last.op = "declarations.enter"
  /\ last.node = i
  /\ orig[i].type = "VariableDeclaration"

----------------------------------------------------------------------------
(* C7.                                                                     *)

\* C7: a variable whose name is not eligible keeps its name through a pass,
\* and a second pass on the result of a first one renames nothing.
C7_EligibilityIdempotent ==
  /\ (pass = 1 /\ phase = "done") =>
       /\ \A k \in 1..Len(scopes) : \A e \in ToSet(scopes[k].variables) :
            ~shouldRename(e.key) => vars[e.var].name = e.key
       /\ \A b \in BindingSites(orig) :
            ~shouldRename(SiteName(orig, b)) => SiteName(ast, b) = SiteName(orig, b)
  /\ pass = 2 => issued = << >>

----------------------------------------------------------------------------
(* C8.                                                                     *)

\* two scopes, one nested in the other, declare the name of use i
ShadowedUse(t, i) ==
  /\ Resolve(t, i).declared
  /\ \E b \in BindingSites(t) :
       /\ SiteName(t, b) = t[i].name
       /\ SiteScopeNode(t, b) # Resolve(t, i).node
       /\ IsAncestorOrSelf([k \in 1..Len(t) |-> t[k].parent], Resolve(t, i).node,
                           SiteScopeNode(t, b))

\* C8: a use of a name that nested scopes declare is in the reference list
\* of the Variable declared in the innermost scope that encloses the use and
\* declares the name, and in no other reference list.
C8_InnermostDeclarationWins ==
  (pass = 1 /\ phase = "resolve" /\ pos > Len(Events)) =>
    \A i \in Uses(orig) : ShadowedUse(orig, i) =>
      /\ \E v \in 1..Len(vars) : Site(i, 0) \in ToSet(vars[v].references)
      /\ \A v \in 1..Len(vars) : Site(i, 0) \in ToSet(vars[v].references) =>
           ToSet(vars[v].declarations) \cap Resolve(orig, i).sites # {}

----------------------------------------------------------------------------
(* C9.                                                                     *)

\* the enter handler of collectDeclarations has just run, without raising,
\* on the FunctionDeclaration node i
JustEnteredFunctionDeclaration(i) ==
  /\ pass = 1
  /\ last.op = "declarations.enter"
  /\ last.node = i
  /\ orig[i].type = "FunctionDeclaration"
  /\ err = "none"

\* the function's name is a var-kind binding of the enclosing scope
NameInEnclosingScope(i) ==
  /\ Holders(last.scope, Site(i, 0)) # {}
  /\ \A v \in Holders(last.scope, Site(i, 0)) : vars[v].type = "var"

\* C9 as stated: the handler binds the function's name in the enclosing
\* scope and leaves the cursor and the set of scopes as they were.
C9_NoScopeOpened ==
  \A i \in 1..Len(orig) : JustEnteredFunctionDeclaration(i) =>
    /\ NameInEnclosingScope(i)
    /\ scope = last.scope
    /\ Len(scopes) = last.nscopes

\* C9 as amended: the handler binds the function's name in the enclosing
\* scope, not in the new one, and opens one new Function scope for the node,
\* the last child of the enclosing scope, which becomes the cursor.
C9_NameOutsideScopeOpened ==
  \A i \in 1..Len(orig) : JustEnteredFunctionDeclaration(i) =>
    /\ NameInEnclosingScope(i)
    /\ Holders(scope, Site(i, 0)) = {}
    /\ Len(scopes) = last.nscopes + 1
    /\ scope = Len(scopes)
    /\ scopes[scope].node = i
    /\ scopes[scope].type = "Function"
    /\ scopes[scope].parent = last.scope
    /\ scopes[last.scope].children # << >>
    /\ scopes[last.scope].children[Len(scopes[last.scope].children)] = scope

\* a FunctionDeclaration nested in another scope has been entered
C9_Witness ==
  \E i \in 1..Len(orig) :
    /\ JustEnteredFunctionDeclaration(i)
    /\ last.scope # 1
    /\ scope # last.scope

----------------------------------------------------------------------------
(* C10.                                                                    *)

\* C10: the binding of a catch clause is a block-scoped Variable of the
\* scope created for the clause and is not held by the enclosing scope.
C10_CatchBindingInClauseScope ==
  pass = 1 =>
    \A i \in 1..Len(orig) :
      (orig[i].type = "CatchClause" /\ orig[i].name \in Names /\ ScopeOf(i) # 0) =>
        /\ Holders(ScopeOf(i), Site(i, 0)) # {}
        /\ \A v \in Holders(ScopeOf(i), Site(i, 0)) : isBlockScoped(vars[v])
        /\ Holders(scopes[ScopeOf(i)].parent, Site(i, 0)) = {}

----------------------------------------------------------------------------
(* C11.                                                                    *)

\* the entries of the tables of all scopes
Entries == UNION {ToSet(scopes[k].variables) : k \in 1..Len(scopes)}

\* the Variables renameVariables requests a name for
RenamedVariables == {e.var : e \in {x \in Entries : shouldRename(x.key)}}

\* the binding sites of the variable the binding site d declares
SitesOfBinding(t, d) ==
  {b \in BindingSites(t) : /\ SiteScopeNode(t, b) = SiteScopeNode(t, d)
                           /\ SiteName(t, b) = SiteName(t, d)}

\* the uses that denote the variable the binding site d declares
UsesOfBinding(t, d) == {i \in Uses(t) : d \in Resolve(t, i).sites}

\* renameVariables has been called once on every scope
C11_EveryScopeOnce ==
  /\ Len(visited) = Len(scopes)
  /\ ToSet(visited) = 1..Len(scopes)

\* every eligible Variable of a scope has one issued name, and no two share one
C11_OneNameEach ==
  /\ \A v \in RenamedVariables : vars[v].name \in ToSet(issued)
  /\ Len(issued) = Cardinality(RenamedVariables)
  /\ \A v \in RenamedVariables : \A w \in RenamedVariables :
       v # w => vars[v].name # vars[w].name

\* the sites a renamed Variable has recorded carry its new name
C11_RecordedSitesPatched ==
  \A v \in RenamedVariables :
    \A s \in ToSet(vars[v].declarations) \cup ToSet(vars[v].references) :
      SiteName(ast, s) = vars[v].name

\* the binding sites and the uses of the variable a renamed Variable stands
\* for carry its new name
C11_NoSiteKeepsOldName ==
  \A v \in RenamedVariables : \A d \in ToSet(vars[v].declarations) :
    /\ \A b \in SitesOfBinding(orig, d) : SiteName(ast, b) = vars[v].name
    /\ \A i \in UsesOfBinding(orig, d) : ast[i].name = vars[v].name

\* C11: after a completed execute renameVariables has visited every scope
\* exactly once, every eligible Variable held in a scope has received exactly
\* one new name, no two Variables have received the same name, and every
\* declaration site and every reference site of a renamed Variable carries
\* its new name.
C11_AllSitesRenamed ==
  (pass = 1 /\ phase = "done") =>
    /\ C11_EveryScopeOnce
    /\ C11_OneNameEach
    /\ C11_RecordedSitesPatched
    /\ ~BlockScopedRedeclaration(orig) => C11_NoSiteKeepsOldName

----------------------------------------------------------------------------
(* C12.                                                                    *)

\* the steps of execute in their order; "failed" ends any of them
PhaseOrder ==
  { <<"declare", "declare">>, <<"declare", "resolve">>, <<"declare", "failed">>,
    <<"resolve", "resolve">>, <<"resolve", "rename">>, <<"resolve", "failed">>,
    <<"rename", "rename">>, <<"rename", "done">>, <<"rename", "failed">> }

\* both walks have handled every event of the traversal
WalksCompleted ==
  /\ phase = "rename"
  /\ pos > Len(Events)
  /\ Len(scopes) = 1 + Cardinality({i \in 1..Len(orig) : orig[i].type \in ScopeNodeTypes})

\* every binding of a plain identifier is in the declaration list of a Variable
AllDeclarationsRecorded ==
  \A b \in BindingSites(orig) : \E v \in 1..Len(vars) : b \in ToSet(vars[v].declarations)

\* every identifier use is in the reference list of a Variable
AllReferencesRecorded ==
  \A i \in Uses(orig) : \E v \in 1..Len(vars) : Site(i, 0) \in ToSet(vars[v].references)

\* the step gives a Variable a new name
RenamesSomething ==
  \/ issued' # issued
  \/ ast' # ast
  \/ \E v \in 1..Len(vars) : vars'[v].name # vars[v].name

\* the candidate-name queue has been built
QueueBuilt == phase \in {"rename", "done"} \/ issued # << >>

C12_OrderedStep == <<phase, phase'>> \in PhaseOrder

C12_RenameAfterWalks == RenamesSomething => (WalksCompleted /\ AllReferencesRecorded)

C12_RenameAfterDeclarations == RenamesSomething => AllDeclarationsRecorded

C12_UsedNamesFrozen == QueueBuilt => usedVariableNames' = usedVariableNames

\* C12: the phases run in the order declare, resolve, generate names, rename,
\* each to completion before the next starts; no Variable is renamed before
\* every declaration and every reference of the program has been recorded,
\* and the used-name set is never extended once the queue has been built.
C12_PhasesInOrder ==
  [][ /\ C12_OrderedStep
      /\ C12_RenameAfterWalks
      /\ C12_RenameAfterDeclarations
      /\ C12_UsedNamesFrozen ]_vars_all

----------------------------------------------------------------------------
(* C13.                                                                    *)

EnterOps == {"declarations.enter", "references.enter"}
LeaveOps == {"declarations.leave", "references.leave"}

\* a walk is running and has not raised
Walking == phase \in {"declare", "resolve"}

\* the cursor is globalScope before the first and after the last event of a walk
C13_GlobalAtBothEnds ==
  (Walking /\ (pos = 1 \/ pos > Len(Events))) => (scope = 1 /\ opened = << >>)

\* an enter handler has run without raising: on a scope-creating node the
\* cursor is now the scope of that node, a child of the cursor before; on
\* any other node the cursor is as before
C13_Enter ==
  (last'.op \in EnterOps /\ err' = "none") =>
    IF NodeType(orig, last'.node) \in ScopeNodeTypes
    THEN /\ scopes'[scope'].node = last'.node
         /\ scopes'[scope'].parent = scope
         /\ scope' # scope
    ELSE scope' = scope

\* a leave handler has run: it closes the node entered last; on a
\* scope-creating node the cursor is again what it was before that node was
\* entered, on any other node the cursor is as before
C13_Leave ==
  last'.op \in LeaveOps =>
    /\ opened # << >>
    /\ opened[Len(opened)].node = last'.node
    /\ IF NodeType(orig, last'.node) \in ScopeNodeTypes
       THEN scope' = opened[Len(opened)].scope
       ELSE scope' = scope

\* C13: in both walks the scope cursor is a LIFO stack: entering a
\* scope-creating node makes the scope of that node the cursor, leaving that
\* node restores the cursor to what it was before the node was entered,
\* leaving any other node leaves the cursor as it is, and the cursor is the
\* Global scope at the start and at the end of each walk.
C13_CursorIsStack ==
  /\ []C13_GlobalAtBothEnds
  /\ [][C13_Enter /\ C13_Leave]_vars_all

\* in the second walk, a scope nested in another scope has just been left
C13_Witness ==
  /\ last.op = "references.leave"
  /\ NodeType(orig, last.node) \in ScopeNodeTypes
  /\ scope # 1
  /\ scope # last.scope
  /\ scopes[last.scope].node = last.node

----------------------------------------------------------------------------
(* C14.                                                                    *)

\* the children of scope s whose recorded node is node i
ChildrenFor(ss, s, i) == {k \in 1..Len(ss[s].children) : ss[ss[s].children[k]].node = i}

\* the first walk has entered a scope-creating node without raising: it has
\* created one scope, recorded for that node, and no older scope is
C14_FirstWalkCreates ==
  (last'.op = "declarations.enter" /\ NodeType(orig, last'.node) \in ScopeNodeTypes
     /\ err' = "none") =>
    /\ Len(scopes') = Len(scopes) + 1
    /\ scopes'[Len(scopes')].node = last'.node
    /\ \A k \in 1..Len(scopes) : scopes[k].node # last'.node

\* the second walk has entered a scope-creating node: the children of the
\* cursor hold exactly one scope recorded for the node, the only scope of
\* the tree recorded for it, and it is the new cursor; no scope is created
C14_SecondWalkFinds ==
  (last'.op = "references.enter" /\ NodeType(orig, last'.node) \in ScopeNodeTypes) =>
    /\ err' = "none"
    /\ Cardinality(ChildrenFor(scopes, scope, last'.node)) = 1
    /\ scopes[scope'].node = last'.node
    /\ scope' \in ToSet(scopes[scope].children)
    /\ \A k \in 1..Len(scopes) : scopes[k].node = last'.node => k = scope'
    /\ Len(scopes') = Len(scopes)

\* C14: on every program on which collectDeclarations completes,
\* collectReferences never raises ScopeAssociationFailure: at each
\* scope-creating node it enters, the children of the cursor hold exactly one
\* scope recorded for that node, the scope the first walk created for it.
C14_ScopesFoundAgain ==
  /\ [](err # "ScopeAssociationFailure")
  /\ [][C14_FirstWalkCreates /\ C14_SecondWalkFinds]_vars_all

\* the second walk has entered a nested scope-creating node whose scope has
\* an older sibling
C14_Witness ==
  /\ last.op = "references.enter"
  /\ NodeType(orig, last.node) \in ScopeNodeTypes
  /\ last.scope # 1
  /\ Len(scopes[last.scope].children) >= 2
  /\ scope = scopes[last.scope].children[2]
  /\ err = "none"

----------------------------------------------------------------------------
(* C15.                                                                    *)

\* the candidate names left after the exclusion of the used names
NamesLeft == generateNames(usedVariableNames)

\* the Variables of the tables that have been given an issued name
GivenNames == {v \in RenamedVariables : vars[v].name \in ToSet(issued)}

\* execute has ended, normally or by raising in renameVariables
Ended == phase = "done" \/ (phase = "failed" /\ visited # << >>)

\* with more eligible Variables than names execute raises NameExhaustion,
\* with no more it does not
C15_RaisedWhenShort ==
  Ended => (err = "NameExhaustion" <=> Cardinality(RenamedVariables) > Len(NamesLeft))

\* the failure is raised by the first request on the empty queue: every
\* candidate has been issued until then, each to one Variable
C15_RaisedAtFirstEmptyRequest ==
  err = "NameExhaustion" =>
    /\ variableNames = << >>
    /\ issued = NamesLeft
    /\ Cardinality(GivenNames) = Len(issued)

\* no name is issued twice
C15_NoReissue ==
  \A k \in 1..Len(issued) : \A m \in 1..Len(issued) : k # m => issued[k] # issued[m]

\* after the failure the Variables renamed before it have their new name, at
\* every site they have recorded, and the others have their old name
C15_RenamedKeepNames ==
  err = "NameExhaustion" =>
    /\ \A k \in 1..Len(issued) : \E v \in GivenNames : vars[v].name = issued[k]
    /\ \A v \in GivenNames :
         \A s \in ToSet(vars[v].declarations) \cup ToSet(vars[v].references) :
           SiteName(ast, s) = vars[v].name
    /\ \A e \in Entries : e.var \notin GivenNames => vars[e.var].name = e.key

\* C15: when the eligible Variables outnumber the candidate names left after
\* the exclusion of the used names, execute raises NameExhaustion at the
\* first request made on the empty queue, no name is issued twice, and the
\* Variables renamed before the failure keep their new names.
C15_ExhaustionRaised ==
  /\ C15_RaisedWhenShort
  /\ C15_RaisedAtFirstEmptyRequest
  /\ C15_NoReissue
  /\ C15_RenamedKeepNames

\* NameExhaustion has been raised in a child scope after two Variables have
\* been renamed
C15_Witness ==
  /\ err = "NameExhaustion"
  /\ Len(issued) = 2
  /\ Len(visited) >= 2
  /\ Cardinality(RenamedVariables) > Len(NamesLeft)

----------------------------------------------------------------------------
(* C16.                                                                    *)

\* the enter handler of collectDeclarations has just run, without raising,
\* on the function or arrow node i, and the cursor is the scope created for it
JustEnteredFunction(i) ==
  /\ pass = 1
  /\ last.op = "declarations.enter"
  /\ last.node = i
  /\ orig[i].type \in FunctionTypes
  /\ err = "none"
  /\ scopes[scope].node = i

NamedFunctionExpression(i) ==
  orig[i].type = "FunctionExpression" /\ orig[i].name # NoName

\* the parameters of node i that are plain identifiers
ParameterSlots(i) == {j \in 1..Len(orig[i].items) : orig[i].items[j] # Pattern}

\* the names the scope of node i is to hold
ExpectedKeys(i) ==
       (IF NamedFunctionExpression(i) THEN {orig[i].name} ELSE {})
  \cup {orig[i].items[j] : j \in ParameterSlots(i)}
  \cup (IF orig[i].type # "ArrowExpression" THEN {ArgumentsName} ELSE {})

\* the scope holds the function's own name iff the node is a named function
\* expression, and then the enclosing scope does not hold it
C16_OwnName ==
  \A i \in 1..Len(orig) : JustEnteredFunction(i) =>
    /\ Holders(scope, Site(i, 0)) # {} <=> NamedFunctionExpression(i)
    /\ \A v \in Holders(scope, Site(i, 0)) : vars[v].type = "var" /\ vars[v].name = orig[i].name
    /\ NamedFunctionExpression(i) => Holders(last.scope, Site(i, 0)) = {}

\* the scope holds one var-kind Variable for every parameter
C16_Parameters ==
  \A i \in 1..Len(orig) : JustEnteredFunction(i) =>
    \A j \in ParameterSlots(i) :
      /\ Cardinality(Holders(scope, Site(i, j))) = 1
      /\ \A v \in Holders(scope, Site(i, j)) :
           vars[v].type = "var" /\ vars[v].name = orig[i].items[j]

\* the scope holds `arguments` iff the node is no arrow, and nothing but the
\* own name, the parameters and `arguments`
C16_Arguments ==
  \A i \in 1..Len(orig) : JustEnteredFunction(i) =>
    /\ Has(scopes[scope].variables, ArgumentsName) <=> orig[i].type # "ArrowExpression"
    /\ {e.key : e \in ToSet(scopes[scope].variables)} = ExpectedKeys(i)

\* the keys of the entries renameVariables requests a name for
RenamedVariableKeys == {e.key : e \in {x \in Entries : shouldRename(x.key)}}

\* no Variable `arguments` of a scope ever gets another name
C16_ArgumentsNeverRenamed ==
  /\ \A e \in Entries : e.key = ArgumentsName => vars[e.var].name = ArgumentsName
  /\ ArgumentsName \notin RenamedVariableKeys

----------------------------------------------------------------------------
(* C17.                                                                    *)

\* the declarators of statement i that bind a plain identifier
PlainDeclarators(i) == {j \in 1..Len(orig[i].items) : orig[i].items[j] # Pattern}

\* C17: after the enter handler has run without raising on a
\* variable-declaration statement, every declarator of the statement that
\* binds a plain identifier is declared, with its binding site recorded,
\* wherever the destructuring declarators of the statement are.
C17_PlainDeclaratorsDeclared ==
  \A i \in 1..Len(orig) : (JustDeclared(i) /\ err = "none") =>
    \A j \in PlainDeclarators(i) :
      \E v \in 1..Len(vars) :
        /\ vars[v].name = orig[i].items[j]
        /\ Site(i, j) \in ToSet(vars[v].declarations)

----------------------------------------------------------------------------
(* C18.                                                                    *)

\* no Variable has another name than the one of its table entry and of the
\* sites it has recorded, as they are in the original tree
NoVariableRenamed ==
  /\ \A e \in Entries : vars[e.var].name = e.key
  /\ \A v \in 1..Len(vars) :
       \A s \in ToSet(vars[v].declarations) \cup ToSet(vars[v].references) :
         vars[v].name = SiteName(orig, s)

\* the tree is as it was given and renameVariables has not started
TreeUntouched ==
  /\ ast = orig
  /\ issued = << >>
  /\ visited = << >>
  /\ variableNames = << >>

\* C18: when execute aborts with DuplicateDeclaration or
\* ScopeAssociationFailure no Variable has been renamed and no identifier of
\* the tree has changed its name; a failed run that has changed the tree or
\* issued a name has failed with NameExhaustion.
C18_WalkErrorsLeaveTreeUntouched ==
  /\ err \in {"DuplicateDeclaration", "ScopeAssociationFailure"} =>
       (phase = "failed" /\ NoVariableRenamed /\ TreeUntouched)
  /\ (phase = "failed" /\ ~(NoVariableRenamed /\ TreeUntouched)) => err = "NameExhaustion"

\* execute has aborted with DuplicateDeclaration while a scope holds a
\* Variable that would have been renamed
C18_Witness ==
  /\ err = "DuplicateDeclaration"
  /\ RenamedVariables # {}
  /\ \E v \in RenamedVariables : vars[v].declarations # << >>

====
